---- MODULE Spec2Model ----
(***************************************************************************)
(* A model of the playlist synchronization engine of ytplay:               *)
(* src/src/core/youtube_api.py (paginated fetch, enriched fetch, rebuild   *)
(* with sequential replay) and the pure helpers of src/main.py             *)
(* (parse_duration, get_video_durations, duration_to_seconds,              *)
(* sort_videos_by_criteria).                                               *)
(*                                                                         *)
(* Python strings that the code inspects are sequences of one-character    *)
(* strings, so that parsing and formatting are computed, not assumed.      *)
(***************************************************************************)
EXTENDS Integers, Sequences, FiniteSets, TLC

(***************************************************************************)
(* Bounds of the model                                                     *)
(***************************************************************************)
\* the largest number of listing pages the remote source is split into
MaxPages == 2
\* the largest number of items of the remote source
MaxItems == 3
\* the longest list handed to the sort on its own
MaxSortLen == 3
\* the longest generated token handed to parse_duration on its own
MaxTokenLen == 4
\* the largest batch handed to get_video_durations on its own
MaxBatch == 52

(***************************************************************************)
(* Strings                                                                 *)
(***************************************************************************)
Digits == <<"0", "1", "2", "3", "4", "5", "6", "7", "8", "9">>

IsDigit(c) == \E d \in 1..10 : Digits[d] = c

DigitVal(c) == (CHOOSE d \in 1..10 : Digits[d] = c) - 1

\* the characters the model's strings are made of, in code-point order
CharOrder == <<"0", "1", "2", "3", "4", "5", "6", "7", "8", "9", ":",
               "A", "B", "C", "H", "M", "P", "S", "T", "U",
               "a", "b", "c", "k", "n", "o", "w">>

Ord(c) == CHOOSE k \in 1..Len(CharOrder) : CharOrder[k] = c

UpperCase == <<"A", "B", "C", "H", "M", "P", "S", "T", "U">>
LowerCase == <<"a", "b", "c", "h", "m", "p", "s", "t", "u">>

\* str.lower() on one character
LowerChar(c) ==
  IF \E k \in 1..Len(UpperCase) : UpperCase[k] = c
  THEN LowerCase[CHOOSE k \in 1..Len(UpperCase) : UpperCase[k] = c]
  ELSE c

\* str.lower()
Lower(s) == [k \in 1..Len(s) |-> LowerChar(s[k])]

\* Python's s < t on strings: lexicographic by code point
RECURSIVE StrLess(_, _)
StrLess(s, t) ==
  IF t = <<>> THEN FALSE
  ELSE IF s = <<>> THEN TRUE
  ELSE IF s[1] # t[1] THEN Ord(s[1]) < Ord(t[1])
  ELSE StrLess(Tail(s), Tail(t))

\* str(n) for n >= 0
RECURSIVE IntToStr(_)
IntToStr(n) ==
  IF n < 10 THEN <<Digits[n + 1]>>
  ELSE IntToStr(n \div 10) \o <<Digits[(n % 10) + 1]>>

\* f"{n:02d}" for n >= 0
Pad2(n) == IF n < 10 THEN <<"0">> \o IntToStr(n) ELSE IntToStr(n)

\* the int() of a string of decimal digits (the caller checks AllDigits)
RECURSIVE DigitsToInt(_)
DigitsToInt(s) ==
  IF s = <<>> THEN 0
  ELSE 10 * DigitsToInt(SubSeq(s, 1, Len(s) - 1)) + DigitVal(s[Len(s)])

AllDigits(s) == s # <<>> /\ \A k \in 1..Len(s) : IsDigit(s[k])

\* the length of the longest run of digits of s starting at index p
RECURSIVE DigitRun(_, _)
DigitRun(s, p) ==
  IF p <= Len(s) /\ IsDigit(s[p]) THEN 1 + DigitRun(s, p + 1) ELSE 0

\* str.split(sep) for a one-character separator
RECURSIVE Split(_, _)
Split(s, sep) ==
  IF \E k \in 1..Len(s) : s[k] = sep
  THEN LET k == CHOOSE j \in 1..Len(s) :
                  s[j] = sep /\ \A h \in 1..(j - 1) : s[h] # sep
       IN  <<SubSeq(s, 1, k - 1)>> \o Split(SubSeq(s, k + 1, Len(s)), sep)
  ELSE <<s>>

(***************************************************************************)
(* Duration codec (src/main.py)                                            *)
(***************************************************************************)
\* one optional group (?:(\d+)X)? of the pattern, tried at index p:
\* <<matched digits or <<>>, index after the group>>
OptGroup(s, p, unit) ==
  LET n == DigitRun(s, p)
  IN  IF n > 0 /\ p + n <= Len(s) /\ s[p + n] = unit
      THEN <<SubSeq(s, p, p + n - 1), p + n + 1>>
      ELSE <<<<>>, p>>

\* parse_duration: re.match anchors the pattern at the start only
parse_duration(duration) ==
  IF ~(Len(duration) >= 2 /\ duration[1] = "P" /\ duration[2] = "T")
  THEN duration
  ELSE LET h == OptGroup(duration, 3, "H")
           m == OptGroup(duration, h[2], "M")
           s == OptGroup(duration, m[2], "S")
           hours   == IF h[1] # <<>> THEN DigitsToInt(h[1]) ELSE 0
           minutes == IF m[1] # <<>> THEN DigitsToInt(m[1]) ELSE 0
           seconds == IF s[1] # <<>> THEN DigitsToInt(s[1]) ELSE 0
       IN  IF hours > 0
           THEN IntToStr(hours) \o <<":">> \o Pad2(minutes) \o <<":">> \o Pad2(seconds)
           ELSE IntToStr(minutes) \o <<":">> \o Pad2(seconds)

\* the hours of H:MM:SS counted as minutes
duration_to_seconds_hours_as_minutes(duration_str) ==
  LET parts == Split(duration_str, ":")
  IN  IF Len(parts) = 2 /\ AllDigits(parts[1]) /\ AllDigits(parts[2])
      THEN DigitsToInt(parts[1]) * 60 + DigitsToInt(parts[2])
      ELSE IF Len(parts) = 3 /\ AllDigits(parts[1]) /\ AllDigits(parts[2])
              /\ AllDigits(parts[3])
      THEN DigitsToInt(parts[1]) * 60 + DigitsToInt(parts[2]) * 60
           + DigitsToInt(parts[3])
      ELSE 0

\* duration_to_seconds: int() of a part that is not a decimal number raises
\* ValueError, which the function turns into 0
duration_to_seconds(duration_str) ==
  LET parts == Split(duration_str, ":")
  IN  IF Len(parts) = 2
      THEN IF AllDigits(parts[1]) /\ AllDigits(parts[2])
           THEN DigitsToInt(parts[1]) * 60 + DigitsToInt(parts[2])
           ELSE 0
      ELSE IF Len(parts) = 3
      THEN IF AllDigits(parts[1]) /\ AllDigits(parts[2]) /\ AllDigits(parts[3])
           THEN DigitsToInt(parts[1]) * 3600 + DigitsToInt(parts[2]) * 60
                + DigitsToInt(parts[3])
           ELSE 0
      ELSE 0

(***************************************************************************)
(* The remote catalog: the playlist items a listing can return and the     *)
(* videos the secondary lookup knows.  A playlist item in the state is a   *)
(* record [id, position]; its other snippet fields are looked up by id.    *)
(***************************************************************************)
None == "None"

ItemIds == {"i1", "i2", "i3", "i4"}

\* item["snippet"]["resourceId"]["videoId"]; i4 is an item without one
HasVideoId(id) == id # "i4"
VideoIdOf(id) ==
  CASE id = "i1" -> "va" [] id = "i2" -> "vb" [] id = "i3" -> "vc"

\* item["snippet"]["title"]; i4 has no title
HasTitle(id) == id # "i4"
TitleOf(id) ==
  CASE id = "i1" -> <<"b">> [] id = "i2" -> <<"A", "b">> [] id = "i3" -> <<"B">>

\* item["snippet"]["channelTitle"] and the optional videoOwnerChannelTitle
HasChannelTitle(id) == id # "i4"
ChannelTitleOf(id) ==
  CASE id = "i1" -> <<"C">> [] id = "i2" -> <<"b">> [] id = "i3" -> <<"a">>
HasOwnerTitle(id) == id \in {"i1", "i4"}
OwnerTitleOf(id) ==
  CASE id = "i1" -> <<"B">> [] id = "i4" -> <<"a">>

\* item["snippet"]["publishedAt"] as <<year, month, day, hour, minute, second>>
\* when it is an ISO 8601 timestamp; i3's is not one and i4 has none
HasPublishedAt(id) == id # "i4"
PublishedAtValid(id) == id \in {"i1", "i2"}
PublishedAtOf(id) ==
  CASE id = "i1" -> <<2021, 5, 1, 0, 0, 0>> [] id = "i2" -> <<2020, 12, 31, 23, 59, 59>>

\* contentDetails.duration of the videos the secondary lookup returns;
\* vb is a video the lookup no longer returns
VideoKnown(vid) == vid \in {"va", "vc"}
RawDurationOf(vid) ==
  CASE vid = "va" -> <<"P", "T", "1", "H", "2", "M", "3", "S">>
    [] vid = "vc" -> <<"P", "T", "4", "5", "S">>

Unknown == <<"U", "n", "k", "n", "o", "w", "n">>
ZeroDuration == <<"0", ":", "0", "0">>

\* sequences over S without repetition
RECURSIVE DistinctSeqs(_)
DistinctSeqs(S) ==
  {<<>>} \cup UNION {{<<x>> \o t : t \in DistinctSeqs(S \ {x})} : x \in S}

RECURSIVE Flatten(_)
Flatten(pages) == IF pages = <<>> THEN <<>> ELSE pages[1] \o Flatten(Tail(pages))

\* the ways to cut the sequence s into exactly n consecutive pages
RECURSIVE Cuts(_, _)
Cuts(s, n) ==
  IF n = 1 THEN {<<s>>}
  ELSE UNION {{<<SubSeq(s, 1, k)>> \o r : r \in Cuts(SubSeq(s, k + 1, Len(s)), n - 1)}
              : k \in 0..Len(s)}

\* the remote source playlists: the listing pages, in cursor order
Remotes ==
  UNION {Cuts(s, n) : s \in {t \in DistinctSeqs(ItemIds) : Len(t) <= MaxItems},
                      n \in 1..MaxPages}

(***************************************************************************)
(* Sort engine (src/main.py)                                               *)
(***************************************************************************)
Criteria == {"upload_date", "duration", "title", "channel", "position"}

\* datetime.min.replace(tzinfo=UTC)
MinDate == <<1, 1, 1, 0, 0, 0>>

\* < on tuples of integers of the same length
RECURSIVE TupleLess(_, _)
TupleLess(a, b) ==
  IF a = <<>> THEN FALSE
  ELSE IF a[1] # b[1] THEN a[1] < b[1]
  ELSE TupleLess(Tail(a), Tail(b))

get_publish_date(video) ==
  IF HasPublishedAt(video.id) /\ PublishedAtValid(video.id)
  THEN PublishedAtOf(video.id) ELSE MinDate

\* video.get("duration", "0:00"), "Unknown" counting as 0
get_duration_seconds(video) ==
  LET duration_str == IF "duration" \in DOMAIN video THEN video.duration
                      ELSE ZeroDuration
  IN  IF duration_str = Unknown THEN 0 ELSE duration_to_seconds(duration_str)

get_title(video) == IF HasTitle(video.id) THEN Lower(TitleOf(video.id)) ELSE <<>>

get_channel(video) ==
  IF HasOwnerTitle(video.id) THEN Lower(OwnerTitleOf(video.id))
  ELSE IF HasChannelTitle(video.id) THEN Lower(ChannelTitleOf(video.id))
  ELSE <<>>

get_position(video) == video.position

\* key(a) < key(b) for the key function the criterion selects
KeyLess(sort_by, a, b) ==
  CASE sort_by = "upload_date" -> TupleLess(get_publish_date(a), get_publish_date(b))
    [] sort_by = "duration"    -> get_duration_seconds(a) < get_duration_seconds(b)
    [] sort_by = "title"       -> StrLess(get_title(a), get_title(b))
    [] sort_by = "channel"     -> StrLess(get_channel(a), get_channel(b))
    [] sort_by = "position"    -> get_position(a) < get_position(b)

\* reverse taken as the forward order turned around: ties come out reversed
GoesBeforeTiesReversed(sort_by, reverse, x, e) ==
  IF reverse THEN ~KeyLess(sort_by, x, e) ELSE KeyLess(sort_by, x, e)

\* x goes strictly before e in the output order
GoesBefore(sort_by, reverse, x, e) ==
  IF reverse THEN KeyLess(sort_by, e, x) ELSE KeyLess(sort_by, x, e)

\* x inserted into the ordered sequence s after every element it does not
\* strictly precede: equal keys keep their input order
RECURSIVE InsertStable(_, _, _, _)
InsertStable(sort_by, reverse, x, s) ==
  IF s = <<>> THEN <<x>>
  ELSE IF GoesBefore(sort_by, reverse, x, s[1]) THEN <<x>> \o s
  ELSE <<s[1]>> \o InsertStable(sort_by, reverse, x, Tail(s))

\* sorted(videos, key=..., reverse=reverse): stable in both directions
RECURSIVE SortedStable(_, _, _)
SortedStable(sort_by, reverse, videos) ==
  IF videos = <<>> THEN <<>>
  ELSE InsertStable(sort_by, reverse, videos[Len(videos)],
                    SortedStable(sort_by, reverse, SubSeq(videos, 1, Len(videos) - 1)))

\* a criterion that is none of the five taken as "position"
sort_videos_default_position(videos, sort_by, reverse) ==
  IF videos = <<>> THEN videos
  ELSE IF sort_by \in Criteria THEN SortedStable(sort_by, reverse, videos)
  ELSE SortedStable("position", reverse, videos)

\* the items sorted as a set: an item equal to an earlier one is left out
sort_videos_as_set(videos, sort_by, reverse) ==
  LET D[k \in 0..Len(videos)] ==
        IF k = 0 THEN <<>>
        ELSE IF \E j \in 1..(k - 1) : videos[j] = videos[k] THEN D[k - 1]
        ELSE Append(D[k - 1], videos[k])
  IN IF sort_by \in Criteria THEN SortedStable(sort_by, reverse, D[Len(videos)])
     ELSE D[Len(videos)]

sort_videos_by_criteria(videos, sort_by, reverse) ==
  IF videos = <<>> THEN videos
  ELSE IF sort_by \in Criteria THEN SortedStable(sort_by, reverse, videos)
  ELSE videos

(***************************************************************************)
(* State                                                                   *)
(***************************************************************************)
VARIABLES
  remote,            \* the source playlist on the remote side: its listing pages
  cache,             \* the cache store: kind -> entry for the source playlist id
  dest,              \* the destination playlist of the running rebuild, remote side
  op,                \* the command that runs: none, plain, enriched, rebuild, clear
  pc,                \* where it stands: idle (no command), done (it has returned)
  use_cache, show_progress, sort_by, reverse,       \* its arguments
  videos,            \* the fetch's accumulator, then the rebuild's item list
  next_page_token,   \* the cursor of the next listing request
  new_videos,        \* the items of the page being enriched
  sorted_videos, new_playlist_id,
  i, successful_count, failed_count,                \* the replay loop
  ret,               \* what the command returned
  fetched,           \* what the command's fetch returned
  log,               \* the remote requests and cache accesses of the command
  pages,             \* the listing pages the command received, in order
  cache0,            \* the cache store as it was when the command was called
  duration_iso,      \* the raw token handed to parse_duration on its own
  duration_str,      \* the string parse_duration returned for it
  asked_ids,         \* the batch handed to get_video_durations on its own
  got_durations,     \* the mapping get_video_durations returned for it
  force,             \* the --force flag of the delete and the login command
  playlist_id,       \* the playlist the delete command is about
  token_file,        \* the stored credentials
  account            \* the playlists of the account, remote side

vars == <<remote, cache, dest, op, pc, use_cache, show_progress, sort_by, reverse,
          videos, next_page_token, new_videos, sorted_videos, new_playlist_id,
          i, successful_count, failed_count, ret, fetched, log, pages, cache0,
          duration_iso, duration_str, asked_ids, got_durations,
          force, playlist_id, token_file, account>>

\* what a call fixes, and the locals of the replay loop
args == <<op, use_cache, show_progress, sort_by, reverse, cache0>>
replay == <<new_playlist_id, i, successful_count, failed_count>>
\* what the delete and the login command work on
cli == <<force, playlist_id, token_file, account>>
\* what the fetches, the rebuild and the clear command leave alone: the
\* argument and the result of a helper called on its own, and cli
helper == <<duration_iso, duration_str, asked_ids, got_durations, cli>>

CacheKinds == {"videos", "videos_durations"}

NoEntry == [present |-> FALSE, data |-> <<>>]
Entry(list) == [present |-> TRUE, data |-> list]

NoDest == [exists |-> FALSE, items |-> <<>>]

Pending  == [status |-> "pending", list |-> <<>>, id |-> None]
RetNone  == [status |-> "None", list |-> <<>>, id |-> None]
Raised   == [status |-> "raised", list |-> <<>>, id |-> None]
RetList(list) == [status |-> "list", list |-> list, id |-> None]
RetId(id) == [status |-> "id", list |-> <<>>, id |-> id]

\* a remote request or a cache access, and whether it succeeded
Event(type, arg, n, ok) == [type |-> type, arg |-> arg, n |-> n, ok |-> ok]

\* the playlist id the remote gives the collection a rebuild creates
NewId == "PLnew"

\* the token file: absent, or credentials that are valid or not, with a
\* refresh token or not
NoTokenFile ==
  [exists |-> FALSE, valid |-> FALSE, refreshable |-> FALSE]

(***************************************************************************)
(* The remote API                                                          *)
(***************************************************************************)
\* the number of items on the pages before page p
RECURSIVE Offset(_, _)
Offset(rem, p) == IF p <= 1 THEN 0 ELSE Offset(rem, p - 1) + Len(rem[p - 1])

\* cursors are page numbers; NoToken is the absent cursor (None)
NoToken == 0
PageNo(token) == IF token = NoToken THEN 1 ELSE token

\* playlistItems.list: the page the cursor names (no cursor: the first one)
ListItems(rem, token) ==
  LET p == PageNo(token)
  IN  [k \in 1..Len(rem[p]) |-> [id |-> rem[p][k], position |-> Offset(rem, p) + k - 1]]

\* response.get("nextPageToken")
NextPageToken(rem, token) ==
  IF PageNo(token) < Len(rem) THEN PageNo(token) + 1 ELSE NoToken

\* playlistItems.insert with a position: the item goes to that index
InsertAt(items, position, vid) ==
  IF position >= Len(items) THEN Append(items, vid)
  ELSE SubSeq(items, 1, position) \o <<vid>> \o SubSeq(items, position + 1, Len(items))

(***************************************************************************)
(* Cache store (src/core/cache.py is not among the sources: get returns    *)
(* the stored list or nothing, put stores the list under (kind, id))       *)
(***************************************************************************)
get_cached_data(c, kind) == c[kind]
save_cached_data(c, kind, list) == [c EXCEPT ![kind] = Entry(list)]

(***************************************************************************)
(* Duration enricher (src/main.py)                                         *)
(***************************************************************************)
\* get_video_durations: the mapping built from the response; an HttpError
\* is caught and gives the empty mapping
get_video_durations(video_ids, ok) ==
  IF ok
  THEN [vid \in {v \in {video_ids[k] : k \in 1..Len(video_ids)} : VideoKnown(v)}
          |-> parse_duration(RawDurationOf(vid))]
  ELSE [vid \in {} |-> <<>>]

\* a missing duration read as "0:00"
DurationGetZero(durations, vid) ==
  IF vid \in DOMAIN durations THEN durations[vid] ELSE ZeroDuration

\* durations.get(video_id, "Unknown")
DurationGet(durations, vid) ==
  IF vid \in DOMAIN durations THEN durations[vid] ELSE Unknown

EnhancedVideo(video, duration) ==
  [id |-> video.id, position |-> video.position,
   video_id |-> VideoIdOf(video.id), duration |-> duration]

(***************************************************************************)
(* Fetch: get_playlist_videos and get_playlist_videos_with_durations       *)
(***************************************************************************)
\* a rebuild taking the plain fetch whatever the criterion
EnrichedOnlyCommand(o, sb) == o = "enriched"

\* command o runs the enriched fetch: the command itself, or a rebuild
\* sorting by duration
Enriched(o, sb) == o = "enriched" \/ (o = "rebuild" /\ sb = "duration")

\* one cache kind for both fetches
FetchKindShared(o, sb) == "videos"

\* the cache kind of the fetch that command o runs
FetchKind(o, sb) == IF Enriched(o, sb) THEN "videos_durations" ELSE "videos"

\* one item without a video id emptying the whole list
RebuildVideosAllOrNone(sb, r) ==
  IF sb = "duration" THEN r.list
  ELSE IF \E k \in 1..Len(r.list) : ~HasVideoId(r.list[k].id) THEN <<>>
  ELSE [k \in 1..Len(r.list) |-> EnhancedVideo(r.list[k], ZeroDuration)]

\* create_sorted_playlist, from the fetch's result to its item list: the
\* enriched list as it is, or placeholders for the plain list (an item
\* whose videoId is missing raises KeyError and is skipped)
RebuildVideos(sb, r) ==
  IF sb = "duration" THEN r.list
  ELSE LET kept == SelectSeq(r.list, LAMBDA v : HasVideoId(v.id))
       IN  [k \in 1..Len(kept) |-> EnhancedVideo(kept[k], ZeroDuration)]

\* the emptiness test as "videos is None": an empty list passes it
NoVideosOnlyNone(sb, r) == r.status = "None"

\* if not videos: the fetch failed or no item is left
NoVideos(sb, r) == r.status = "None" \/ RebuildVideos(sb, r) = <<>>

\* the fetch of command o returns r, with the cache, log and pages as given:
\* a fetch command is over; a rebuild goes on to sort and create
FetchReturns(o, sb, rv, r, c, lg, pg) ==
  /\ cache' = c
  /\ log' = lg
  /\ pages' = pg
  /\ fetched' = r
  /\ next_page_token' = NoToken
  /\ new_videos' = <<>>
  /\ IF o # "rebuild"
     THEN /\ pc' = "done"
          /\ ret' = r
          /\ videos' = <<>>
          /\ sorted_videos' = <<>>
     ELSE IF r.status = "raised"
     THEN /\ pc' = "done"
          /\ ret' = Raised
          /\ videos' = <<>>
          /\ sorted_videos' = <<>>
     ELSE IF NoVideos(sb, r)
     THEN /\ pc' = "done"
          /\ ret' = RetNone
          /\ videos' = <<>>
          /\ sorted_videos' = <<>>
     ELSE /\ pc' = "create"
          /\ ret' = Pending
          /\ videos' = RebuildVideos(sb, r)
          /\ sorted_videos' = sort_videos_by_criteria(RebuildVideos(sb, r), sb, rv)

\* the cache read that opens a fetch when caching is enabled
CacheLookup(uc, kind) ==
  IF uc THEN <<Event("cache_get", kind, 0, get_cached_data(cache, kind).present)>>
  ELSE <<>>

\* the cache check with its entry never taken
CacheHitNever(uc, kind) == uc /\ FALSE

\* the entry taken whether caching is enabled or not
CacheHitIgnoringFlag(uc, kind) == get_cached_data(cache, kind).present

\* if use_cache: ... if cached_videos is not None
CacheHit(uc, kind) == uc /\ get_cached_data(cache, kind).present

\* the cached list returned without its first item
CachedResultTruncated(entry) == RetList(Tail(entry.data))

\* return cached_videos
CachedResult(entry) == RetList(entry.data)

\* the fetch of command o is called
FetchCall(o, sb, rv, uc, sp, lg) ==
  IF CacheHit(uc, FetchKind(o, sb))
  THEN FetchReturns(o, sb, rv, CachedResult(get_cached_data(cache, FetchKind(o, sb))),
                    cache, lg \o CacheLookup(uc, FetchKind(o, sb)), <<>>)
  ELSE /\ pc' = IF sp THEN "count" ELSE "page"
       /\ log' = lg \o CacheLookup(uc, FetchKind(o, sb))
       /\ pages' = <<>>
       /\ ret' = Pending
       /\ fetched' = Pending
       /\ videos' = <<>>
       /\ sorted_videos' = <<>>
       /\ next_page_token' = NoToken
       /\ new_videos' = <<>>
       /\ UNCHANGED cache

\* a fetch command is called
StartFetch(o, uc, sp) ==
  /\ pc = "idle"
  /\ op' = o
  /\ use_cache' = uc
  /\ show_progress' = sp
  /\ sort_by' = None
  /\ reverse' = FALSE
  /\ cache0' = cache
  /\ FetchCall(o, None, FALSE, uc, sp, <<>>)
  /\ UNCHANGED <<helper, remote, dest, replay>>

GetPlaylistVideos == \E uc, sp \in BOOLEAN : StartFetch("plain", uc, sp)

GetPlaylistVideosWithDurations == \E uc, sp \in BOOLEAN : StartFetch("enriched", uc, sp)

\* the item-count lookup before the listing (show_progress); its HttpError
\* is swallowed and the listing starts either way
CountLookup ==
  \E ok \in BOOLEAN :
    /\ pc = "count"
    /\ pc' = "page"
    /\ log' = Append(log, Event("count", None, 0, ok))
    /\ UNCHANGED <<helper, remote, cache, dest, args, replay, videos, next_page_token,
                   new_videos, sorted_videos, ret, fetched, pages>>

\* the cache written whenever caching is enabled, an empty list included
ShouldCacheAlways(uc, vs) == uc

\* if use_cache and videos
ShouldCache(uc, vs) == uc /\ vs # <<>>

\* after the loop: the cache write and the return
FetchFinish(vs, lg, pg) ==
  IF ShouldCache(use_cache, vs)
  THEN FetchReturns(op, sort_by, reverse, RetList(vs),
                    save_cached_data(cache, FetchKind(op, sort_by), vs),
                    Append(lg, Event("cache_put", FetchKind(op, sort_by), Len(vs), TRUE)),
                    pg)
  ELSE FetchReturns(op, sort_by, reverse, RetList(vs), cache, lg, pg)

\* the page's items put in front of the accumulator
ExtendFront(vs, items) == items \o vs

\* videos.extend(new_videos), and videos.append in page order
Extend(vs, items) == vs \o items

\* the loop left after its first page, whatever cursor the page carries
LastPageAlways(rem, token) == TRUE

\* if not next_page_token: break
LastPage(rem, token) == NextPageToken(rem, token) = NoToken

\* the rest of a loop iteration once the page's items are in the accumulator
PageTaken(vs, token, lg, pg) ==
  IF LastPage(remote, token)
  THEN FetchFinish(vs, lg, pg)
  ELSE /\ pc' = "page"
       /\ videos' = vs
       /\ next_page_token' = NextPageToken(remote, token)
       /\ new_videos' = <<>>
       /\ log' = lg
       /\ pages' = pg
       /\ UNCHANGED <<cache, ret, fetched, sorted_videos>>

\* pageToken=next_page_token
PageCursor == next_page_token

\* the except branch returning what was accumulated
FailedFetchPartial(vs) == RetList(vs)

\* except HttpError: return None
FailedFetchResult(vs) == RetNone

\* a listing request fails with HttpError
ListPageFails ==
  /\ pc = "page"
  /\ FetchReturns(op, sort_by, reverse, FailedFetchResult(videos), cache,
                  Append(log, Event("listItems", None, PageCursor, FALSE)), pages)
  /\ UNCHANGED <<helper, remote, dest, args, replay>>

\* a listing request of the plain fetch succeeds
ListPagePlain ==
  /\ pc = "page"
  /\ ~Enriched(op, sort_by)
  /\ LET items == ListItems(remote, PageCursor)
     IN  PageTaken(Extend(videos, items), PageCursor,
                   Append(log, Event("listItems", None, PageCursor, TRUE)),
                   Append(pages, items))
  /\ UNCHANGED <<helper, remote, dest, args, replay>>

\* a listing request of the enriched fetch succeeds: an item without a
\* videoId raises KeyError out of the fetch; an empty page needs no lookup
ListPageEnriched ==
  /\ pc = "page"
  /\ Enriched(op, sort_by)
  /\ LET items == ListItems(remote, PageCursor)
         lg == Append(log, Event("listItems", None, PageCursor, TRUE))
         pg == Append(pages, items)
     IN  IF \E k \in 1..Len(items) : ~HasVideoId(items[k].id)
         THEN FetchReturns(op, sort_by, reverse, Raised, cache, lg, pg)
         ELSE IF items = <<>>
         THEN PageTaken(videos, PageCursor, lg, pg)
         ELSE /\ pc' = "durations"
              /\ new_videos' = items
              /\ log' = lg
              /\ pages' = pg
              /\ UNCHANGED <<cache, ret, fetched, videos, sorted_videos, next_page_token>>
  /\ UNCHANGED <<helper, remote, dest, args, replay>>

\* the duration lookup of a page answers (ok) or fails with HttpError; the
\* page's items are enriched and appended either way
DurationLookup ==
  \E ok \in BOOLEAN :
    /\ pc = "durations"
    /\ LET video_ids == [k \in 1..Len(new_videos) |-> VideoIdOf(new_videos[k].id)]
           durations == get_video_durations(video_ids, ok)
           enhanced == [k \in 1..Len(new_videos) |->
                          EnhancedVideo(new_videos[k], DurationGet(durations, video_ids[k]))]
       IN  PageTaken(Extend(videos, enhanced), next_page_token,
                     Append(log, Event("durations", None, Len(video_ids), ok)), pages)
    /\ UNCHANGED <<helper, remote, dest, args, replay>>

(***************************************************************************)
(* Rebuild: create_sorted_playlist and the sequential replay               *)
(***************************************************************************)
\* the criteria a rebuild is called with: the five and one that is none of them
SortArgs == Criteria \cup {"views"}

CreateSortedPlaylist ==
  \E sb \in SortArgs, rv, uc, sp \in BOOLEAN :
    /\ pc = "idle"
    /\ op' = "rebuild"
    /\ pc' = "info"
    /\ sort_by' = sb
    /\ reverse' = rv
    /\ use_cache' = uc
    /\ show_progress' = sp
    /\ cache0' = cache
    /\ UNCHANGED <<helper, remote, cache, dest, replay, videos, next_page_token,
                   new_videos,
                   sorted_videos, ret, fetched, log, pages>>

\* get_playlist_info: the entry, or None when the response has no item or
\* the request fails with HttpError
get_playlist_info(outcome) == IF outcome = "found" THEN "playlist" ELSE None

\* the source check left out
SourceMissingNever(source_playlist) == FALSE

\* if not source_playlist
SourceMissing(source_playlist) == source_playlist = None

\* the summary lookup, then return None or the fetch
InfoLookup ==
  \E outcome \in {"found", "missing", "error"} :
    /\ pc = "info"
    /\ IF SourceMissing(get_playlist_info(outcome))
       THEN /\ pc' = "done"
            /\ ret' = RetNone
            /\ log' = Append(log, Event("info", outcome, 0, outcome = "found"))
            /\ UNCHANGED <<cache, videos, next_page_token, new_videos, sorted_videos,
                           fetched, pages>>
       ELSE FetchCall("rebuild", sort_by, reverse, use_cache, show_progress,
                      Append(log, Event("info", outcome, 0, outcome = "found")))
    /\ UNCHANGED <<helper, remote, dest, args, replay>>

\* create_playlist: the new id, or None on HttpError
create_playlist(ok) == IF ok THEN NewId ELSE None

\* the create check left out
CreateFailedNever(id) == FALSE

\* if not new_playlist_id
CreateFailed(id) == id = None

\* video_ids = [video["video_id"] for video in sorted_videos]
VideoIds(sorted) == [k \in 1..Len(sorted) |-> sorted[k].video_id]

start_position == 0

\* the source collection's position sent instead of the loop index
InsertPositionSource(k) == sorted_videos[k + 1].position

\* position = start_position + i
InsertPosition(k) == start_position + k

\* the new id returned whatever the replay counted
RebuildResultAlwaysId(id, failed) == RetId(id)

\* what create_sorted_playlist returns after the replay
RebuildResult(id, failed) == IF failed > 0 THEN RetNone ELSE RetId(id)

\* add_videos_to_playlist_sequential called on its own returns its counters
RetCounts == [status |-> "counts", list |-> <<>>, id |-> None]

\* what the command returns once the replay has returned
ReplayReturn(o, id, failed) ==
  IF o = "rebuild" THEN RebuildResult(id, failed) ELSE RetCounts

\* a compensating delete of the destination
DestRolledBack(d) == NoDest

\* the destination after a failed insert: it is left as it is
DestAfterFailure(d) == d

\* the create request, then return None or enter the replay
\* (add_videos_to_playlist_sequential returns 0, 0 for an empty list)
CreatePlaylist ==
  \E ok \in BOOLEAN :
    /\ pc = "create"
    /\ dest' = IF ok THEN [exists |-> TRUE, items |-> <<>>] ELSE dest
    /\ new_playlist_id' = create_playlist(ok)
    /\ log' = Append(log, Event("createCollection", None, 0, ok))
    /\ i' = 0
    /\ successful_count' = 0
    /\ failed_count' = 0
    /\ IF CreateFailed(create_playlist(ok))
       THEN /\ pc' = "done"
            /\ ret' = RetNone
       ELSE IF VideoIds(sorted_videos) = <<>>
       THEN /\ pc' = "done"
            /\ ret' = RebuildResult(create_playlist(ok), 0)
       ELSE /\ pc' = "insert"
            /\ UNCHANGED ret
    /\ UNCHANGED <<helper, remote, cache, args, videos, next_page_token, new_videos,
                   sorted_videos, fetched, pages>>

\* the loop goes on after the insert of index k
LoopContinues(k) == k + 1 < Len(VideoIds(sorted_videos))

\* add_video_to_playlist succeeds: count, pause, next item or return
InsertOk ==
  /\ pc = "insert"
  /\ LET video_id == VideoIds(sorted_videos)[i + 1]
         position == InsertPosition(i)
     IN  /\ dest' = [dest EXCEPT !.items = InsertAt(dest.items, position, video_id)]
         /\ log' = log \o <<Event("insertItem", video_id, position, TRUE),
                            Event("sleep", None, 0, TRUE)>>
  /\ successful_count' = successful_count + 1
  /\ i' = i + 1
  /\ IF LoopContinues(i)
     THEN /\ pc' = "insert"
          /\ UNCHANGED ret
     ELSE /\ pc' = "done"
          /\ ret' = ReplayReturn(op, new_playlist_id, failed_count)
  /\ UNCHANGED <<helper, remote, cache, args, videos, next_page_token, new_videos,
                 sorted_videos, new_playlist_id, failed_count, fetched, pages>>

\* the loop going on after a failed insert
ContinuesAfterFailureAlways == TRUE

\* whether the loop goes on after a failed insert: it returns at once
ContinuesAfterFailure == FALSE

\* add_video_to_playlist fails with HttpError: count and return
InsertFails ==
  /\ pc = "insert"
  /\ LET video_id == VideoIds(sorted_videos)[i + 1]
         position == InsertPosition(i)
     IN  log' = Append(log, Event("insertItem", video_id, position, FALSE))
  /\ failed_count' = failed_count + 1
  /\ dest' = DestAfterFailure(dest)
  /\ IF ContinuesAfterFailure /\ LoopContinues(i)
     THEN /\ pc' = "insert"
          /\ i' = i + 1
          /\ UNCHANGED ret
     ELSE /\ pc' = "done"
          /\ ret' = ReplayReturn(op, new_playlist_id, failed_count + 1)
          /\ UNCHANGED i
  /\ UNCHANGED <<helper, remote, cache, args, videos, next_page_token, new_videos,
                 sorted_videos, new_playlist_id, successful_count, fetched, pages>>

(***************************************************************************)
(* Cache clearing (src/src/cli/cache_commands.py)                          *)
(***************************************************************************)
\* clear_cache(type): the entries of one kind, or all of them
clear_cache(c, type) ==
  [k \in CacheKinds |-> IF type = None \/ type = k THEN NoEntry ELSE c[k]]

\* the clear command: nothing to do on an empty cache
ClearCache ==
  \E type \in CacheKinds \cup {None} :
    /\ pc = "idle"
    /\ \E k \in CacheKinds : cache[k].present
    /\ pc' = "done"
    /\ op' = "clear"
    /\ cache0' = cache
    /\ cache' = clear_cache(cache, type)
    /\ UNCHANGED <<helper, remote, dest, use_cache, show_progress, sort_by, reverse,
                   replay,
                   videos, next_page_token, new_videos, sorted_videos, ret, fetched,
                   log, pages>>

\* the command's process ends: only the cache store and the remote source
\* outlive it
Exit ==
  /\ pc = "done"
  /\ pc' = "idle"
  /\ op' = "none"
  /\ use_cache' = FALSE
  /\ show_progress' = FALSE
  /\ sort_by' = None
  /\ reverse' = FALSE
  /\ cache0' = cache
  /\ dest' = NoDest
  /\ ret' = Pending
  /\ fetched' = Pending
  /\ log' = <<>>
  /\ pages' = <<>>
  /\ videos' = <<>>
  /\ sorted_videos' = <<>>
  /\ new_playlist_id' = None
  /\ i' = 0
  /\ successful_count' = 0
  /\ failed_count' = 0
  /\ force' = FALSE
  /\ playlist_id' = None
  /\ UNCHANGED <<remote, cache, next_page_token, new_videos, token_file, account,
                 duration_iso, duration_str, asked_ids, got_durations>>

(***************************************************************************)
(* Specification                                                           *)
(***************************************************************************)
\* no helper has been called on its own
NoHelperCall ==
  /\ duration_iso = <<>>
  /\ duration_str = <<>>
  /\ asked_ids = <<>>
  /\ got_durations = <<>>

\* neither the delete nor the login command has run, and nobody has logged in
NoCliCall ==
  /\ force = FALSE
  /\ playlist_id = None
  /\ token_file = NoTokenFile
  /\ account = <<>>

Init ==
  /\ remote \in Remotes
  /\ cache = [k \in CacheKinds |-> NoEntry]
  /\ dest = NoDest
  /\ op = "none"
  /\ pc = "idle"
  /\ use_cache = FALSE
  /\ show_progress = FALSE
  /\ sort_by = None
  /\ reverse = FALSE
  /\ videos = <<>>
  /\ next_page_token = NoToken
  /\ new_videos = <<>>
  /\ sorted_videos = <<>>
  /\ new_playlist_id = None
  /\ i = 0
  /\ successful_count = 0
  /\ failed_count = 0
  /\ ret = Pending
  /\ fetched = Pending
  /\ log = <<>>
  /\ pages = <<>>
  /\ cache0 = cache
  /\ NoHelperCall
  /\ NoCliCall

Next ==
  \/ GetPlaylistVideos
  \/ GetPlaylistVideosWithDurations
  \/ CountLookup
  \/ ListPageFails
  \/ ListPagePlain
  \/ ListPageEnriched
  \/ DurationLookup
  \/ CreateSortedPlaylist
  \/ InfoLookup
  \/ CreatePlaylist
  \/ InsertOk
  \/ InsertFails
  \/ ClearCache
  \/ Exit

Spec == Init /\ [][Next]_vars

(***************************************************************************)
(* The fetches alone.  The code is one sequential loop and every request   *)
(* returns or fails, so a step that can be taken is taken.                 *)
(***************************************************************************)
FetchNext ==
  \/ GetPlaylistVideos
  \/ GetPlaylistVideosWithDurations
  \/ CountLookup
  \/ ListPageFails
  \/ ListPagePlain
  \/ ListPageEnriched
  \/ DurationLookup
  \/ Exit

FetchSpec == Init /\ [][FetchNext]_vars /\ WF_vars(FetchNext)

(***************************************************************************)
(* The fetches, the clear command and a source that changes between        *)
(* commands: items leave the remote playlist                               *)
(***************************************************************************)
\* the sequence s without its k-th element
Without(s, k) == SubSeq(s, 1, k - 1) \o SubSeq(s, k + 1, Len(s))

\* the playlists the source can become: one item removed from one page
RemoteChanges(rem) ==
  {[rem EXCEPT ![p] = Without(rem[p], k)] :
     <<p, k>> \in {pk \in (1..Len(rem)) \X (1..MaxItems) : pk[2] <= Len(rem[pk[1]])}}

\* the owner edits the source playlist while no command runs
RemoteChange ==
  /\ pc = "idle"
  /\ remote' \in RemoteChanges(remote)
  /\ UNCHANGED <<helper, cache, dest, args, replay, pc, videos, next_page_token,
                 new_videos, sorted_videos, ret, fetched, log, pages>>

DriftNext ==
  \/ FetchNext
  \/ ClearCache
  \/ RemoteChange

DriftSpec == Init /\ [][DriftNext]_vars

(***************************************************************************)
(* The sort engine on its own: sort_videos_by_criteria applied to a list   *)
(***************************************************************************)
\* sequences over S without repetition, of length n at most
RECURSIVE SeqsUpTo(_, _)
SeqsUpTo(S, n) ==
  IF n = 0 THEN {<<>>}
  ELSE {<<>>} \cup UNION {{<<x>> \o t : t \in SeqsUpTo(S \ {x}, n - 1)} : x \in S}

\* the records a list is made of: keys that tie under every criterion, a
\* record without a duration field and durations of neither form
SortItems ==
  { [id |-> "i1", position |-> 0, video_id |-> "va",
     duration |-> <<"1", ":", "0", "2", ":", "0", "3">>],
    [id |-> "i2", position |-> 0, video_id |-> "vb", duration |-> Unknown],
    [id |-> "i3", position |-> 1, video_id |-> "vc", duration |-> <<"0", ":", "4", "5">>],
    [id |-> "i4", position |-> 1, video_id |-> "vd"],
    [id |-> "i1", position |-> 2, video_id |-> "va", duration |-> ZeroDuration],
    [id |-> "i2", position |-> 1, video_id |-> "vb", duration |-> <<"4", "5">>],
    [id |-> "i3", position |-> 0, video_id |-> "vc", duration |-> <<"1", ":", "b">>],
    [id |-> "i4", position |-> 0, video_id |-> "vd", duration |-> <<"1", ":", "1", "5">>] }

SortInputs == SeqsUpTo(SortItems, MaxSortLen)

\* the sort about to be applied to one of the lists
SortInitOn(lists) ==
  /\ remote = <<<<>>>>
  /\ cache = [k \in CacheKinds |-> NoEntry]
  /\ dest = NoDest
  /\ op = "sort"
  /\ pc = "idle"
  /\ use_cache = FALSE
  /\ show_progress = FALSE
  /\ sort_by \in SortArgs
  /\ reverse \in BOOLEAN
  /\ videos \in lists
  /\ next_page_token = NoToken
  /\ new_videos = <<>>
  /\ sorted_videos = <<>>
  /\ new_playlist_id = None
  /\ i = 0
  /\ successful_count = 0
  /\ failed_count = 0
  /\ ret = Pending
  /\ fetched = Pending
  /\ log = <<>>
  /\ pages = <<>>
  /\ cache0 = cache
  /\ NoHelperCall
  /\ NoCliCall

SortInit == SortInitOn(SortInputs)

\* sorted_videos = sort_videos_by_criteria(videos, sort_by, reverse)
SortVideos ==
  /\ op = "sort"
  /\ pc = "idle"
  /\ pc' = "done"
  /\ sorted_videos' = sort_videos_by_criteria(videos, sort_by, reverse)
  /\ UNCHANGED <<helper, remote, cache, dest, args, replay, videos, next_page_token,
                 new_videos, ret, fetched, log, pages>>

SortNext == SortVideos

SortSpec == SortInit /\ [][SortNext]_vars

(***************************************************************************)
(* The duration codec on its own: parse_duration applied to a token        *)
(***************************************************************************)
\* the strings over the characters S, of length n at most
RECURSIVE Strings(_, _)
Strings(S, n) ==
  IF n = 0 THEN {<<>>}
  ELSE {<<>>} \cup {<<c>> \o t : c \in S, t \in Strings(S, n - 1)}

TokenChars == {"P", "T", "2", "H", "M", "S"}

\* durations the remote sends: hours, minutes and seconds in part or in
\* full, and durations with a day part
ExampleTokens ==
  { <<"P", "T", "1", "H", "2", "M", "3", "S">>,
    <<"P", "T", "4", "5", "S">>,
    <<"P", "T", "1", "2", "M">>,
    <<"P", "T", "1", "0", "M", "5", "S">>,
    <<"P", "T", "1", "H", "3", "0", "S">>,
    <<"P", "0", "D">>,
    <<"P", "1", "D", "T", "2", "H">> }

Tokens == Strings(TokenChars, MaxTokenLen) \cup ExampleTokens

\* the variables of the commands, none of which runs
CommandsAtRest ==
  /\ remote = <<<<>>>>
  /\ cache = [k \in CacheKinds |-> NoEntry]
  /\ dest = NoDest
  /\ use_cache = FALSE
  /\ show_progress = FALSE
  /\ sort_by = None
  /\ reverse = FALSE
  /\ videos = <<>>
  /\ next_page_token = NoToken
  /\ new_videos = <<>>
  /\ sorted_videos = <<>>
  /\ new_playlist_id = None
  /\ i = 0
  /\ successful_count = 0
  /\ failed_count = 0
  /\ ret = Pending
  /\ fetched = Pending
  /\ log = <<>>
  /\ pages = <<>>
  /\ cache0 = cache

DurationInit ==
  /\ CommandsAtRest
  /\ op = "parse"
  /\ pc = "idle"
  /\ duration_iso \in Tokens
  /\ duration_str = <<>>
  /\ asked_ids = <<>>
  /\ got_durations = <<>>
  /\ NoCliCall

\* duration_str = parse_duration(duration_iso)
ParseDuration ==
  /\ op = "parse"
  /\ pc = "idle"
  /\ pc' = "done"
  /\ duration_str' = parse_duration(duration_iso)
  /\ UNCHANGED <<remote, cache, dest, args, replay, videos, next_page_token,
                 new_videos, sorted_videos, ret, fetched, log, pages,
                 duration_iso, asked_ids, got_durations, cli>>

DurationNext == ParseDuration

DurationSpec == DurationInit /\ [][DurationNext]_vars

(***************************************************************************)
(* The duration enricher on its own: get_video_durations applied to a      *)
(* batch of video ids                                                      *)
(***************************************************************************)
\* maxResults=50: the most ids the remote takes in one videos().list request
BatchLimit == 50

VideoPool == <<"va", "vb", "vc">>

\* the batches: n ids taken from the pool in turn, from each starting point
Batches ==
  {[k \in 1..n |-> VideoPool[((k + r) % Len(VideoPool)) + 1]] :
     n \in 0..MaxBatch, r \in 1..Len(VideoPool)}

BatchInit ==
  /\ CommandsAtRest
  /\ op = "durations"
  /\ pc = "idle"
  /\ duration_iso = <<>>
  /\ duration_str = <<>>
  /\ asked_ids \in Batches
  /\ got_durations = <<>>
  /\ NoCliCall

\* got_durations = get_video_durations(service, asked_ids): no request for
\* an empty batch; otherwise one request with all the ids joined, which the
\* remote answers or refuses with HttpError
GetVideoDurations ==
  /\ op = "durations"
  /\ pc = "idle"
  /\ pc' = "done"
  /\ IF asked_ids = <<>>
     THEN /\ got_durations' = get_video_durations(asked_ids, FALSE)
          /\ UNCHANGED log
     ELSE \E ok \in BOOLEAN :
            /\ got_durations' = get_video_durations(asked_ids, ok)
            /\ log' = Append(log, Event("durations", None, Len(asked_ids), ok))
  /\ UNCHANGED <<remote, cache, dest, args, replay, videos, next_page_token,
                 new_videos, sorted_videos, ret, fetched, pages,
                 duration_iso, duration_str, asked_ids, cli>>

BatchNext == GetVideoDurations

BatchSpec == BatchInit /\ [][BatchNext]_vars

(***************************************************************************)
(* Authentication (src/src/core/auth.py)                                   *)
(***************************************************************************)
\* what the delete and the login command leave alone
engine == <<remote, cache, dest, use_cache, show_progress, sort_by, reverse,
            cache0, replay, videos, next_page_token, new_videos, sorted_videos,
            fetched, pages, duration_iso, duration_str, asked_ids,
            got_durations>>

\* the token files there can be
TokenFiles ==
  {NoTokenFile} \cup
  {[exists |-> TRUE, valid |-> v, refreshable |-> r] : v, r \in BOOLEAN}

\* credentials in memory have the fields of the token file; None is the
\* absent one
NoCreds == NoTokenFile

\* oauth2Credentials.from_authorized_user_file: what the file holds
from_authorized_user_file(tf) == tf

\* _load_credentials: reads the file if it exists, drops what it read and
\* returns None
load_credentials(tf) ==
  LET read == IF tf.exists THEN from_authorized_user_file(tf) ELSE NoCreds
  IN NoCreds

\* the credentials a completed authorization flow hands back
FreshCreds == [exists |-> TRUE, valid |-> TRUE, refreshable |-> TRUE]

\* creds.refresh: the same credentials, valid again
Refreshed(creds) == [creds EXCEPT !.valid = TRUE]

\* build("youtube", "v3", credentials=creds)
Service == RetId("service")

\* _auth_flow then _save_credentials(replace=True) then build; the flow
\* raises when the user does not complete it
AuthFlow(lg, flow_ok) ==
  IF flow_ok
  THEN /\ log' = lg \o <<Event("auth_flow", None, 0, TRUE),
                         Event("save", None, 0, TRUE)>>
       /\ token_file' = FreshCreds
       /\ ret' = Service
  ELSE /\ log' = Append(lg, Event("auth_flow", None, 0, FALSE))
       /\ ret' = Raised
       /\ UNCHANGED token_file

\* authenticate_youtube(force): the service, or the exception of a flow
\* that was not completed
authenticate_youtube(f, flow_ok, refresh_ok) ==
  LET creds == load_credentials(token_file)
      loaded == <<Event("load", None, 0, token_file.exists)>>
  IN
  IF f THEN AuthFlow(<<>>, flow_ok)
  ELSE IF creds = NoCreds THEN AuthFlow(loaded, flow_ok)
  ELSE IF creds.valid
    THEN /\ log' = loaded
         /\ ret' = Service
         /\ UNCHANGED token_file
  ELSE IF creds.refreshable
    THEN IF refresh_ok
         THEN /\ log' = loaded \o <<Event("refresh", None, 0, TRUE),
                                    Event("save", None, 0, TRUE),
                                    Event("save", None, 0, TRUE)>>
              /\ token_file' = Refreshed(creds)
              /\ ret' = Service
         ELSE AuthFlow(Append(loaded, Event("refresh", None, 0, FALSE)),
                       flow_ok)
  ELSE AuthFlow(loaded, flow_ok)

\* auth login and auth status: authenticate_youtube, and what it raises
\* is reported
AuthenticateYoutube ==
  \E f \in BOOLEAN, flow_ok \in BOOLEAN, refresh_ok \in BOOLEAN :
    /\ pc = "idle"
    /\ op' = "auth"
    /\ pc' = "done"
    /\ force' = f
    /\ authenticate_youtube(f, flow_ok, refresh_ok)
    /\ UNCHANGED <<engine, playlist_id, account>>

\* time passes: the access token of the stored credentials expires, and
\* the account may have revoked the refresh token
TokenExpires ==
  \E revoked \in BOOLEAN :
    /\ pc = "idle"
    /\ token_file.exists
    /\ token_file.valid
    /\ token_file' = [token_file EXCEPT !.valid = FALSE,
                                        !.refreshable = @ /\ ~revoked]
    /\ UNCHANGED <<engine, op, pc, ret, log, force, playlist_id, account>>

\* auth logout: the token file is removed if it exists
Logout ==
  /\ pc = "idle"
  /\ op' = "logout"
  /\ pc' = "done"
  /\ token_file' = NoTokenFile
  /\ log' = <<Event("remove", None, 0, token_file.exists)>>
  /\ UNCHANGED <<engine, ret, force, playlist_id, account>>

(***************************************************************************)
(* The delete command (src/src/cli/commands.py, delete_playlist_cmd)       *)
(***************************************************************************)
\* the most playlists the account's listing holds
MaxPlaylists == 2

PlaylistPool == <<"PL1", "PL2", "PL3">>

\* the playlists an account can start with
Accounts == {SubSeq(PlaylistPool, 1, n) : n \in 0..MaxPlaylists}

\* get_playlists: the account's playlists, or None on HttpError
get_playlists(acc, ok) == IF ok THEN RetList(acc) ELSE RetNone

\* the account has a playlist of this id
Has(acc, id) == \E k \in 1..Len(acc) : acc[k] = id

\* what the summary lookup can answer for an id
InfoOutcomes(acc, id) ==
  {"error"} \cup (IF Has(acc, id) THEN {"found"} ELSE {"missing"})

\* the ids a user can pass: one of a playlist, one of none; or no id
GivenIds == {"PL1", "PLgone", None}

\* if not playlists: None and the empty list alike
NoPlaylists(playlists) == playlists.status = "None" \/ playlists.list = <<>>

\* 1 <= idx <= len(playlists)
ValidSelection(idx, playlists) == 1 <= idx /\ idx <= Len(playlists.list)

\* the prompt is never shown
NeedsConfirmationNever(f) == FALSE

\* if not force
NeedsConfirmation(f) == ~f

\* where the command goes once the playlist is resolved
AfterResolved(f) == IF NeedsConfirmation(f) THEN "confirm" ELSE "delete"

\* the call: authenticate_youtube(), which returns a service or raises;
\* the handler of the command catches what it raises and the command ends
DeletePlaylistCmd ==
  \E id \in GivenIds, f \in BOOLEAN, flow_ok \in BOOLEAN, refresh_ok \in BOOLEAN :
    /\ pc = "idle"
    /\ op' = "delete"
    /\ playlist_id' = id
    /\ force' = f
    /\ authenticate_youtube(FALSE, flow_ok, refresh_ok)
    /\ pc' = IF ret' = Raised THEN "done"
             ELSE IF id = None THEN "playlists" ELSE "delete_info"
    /\ UNCHANGED <<engine, account>>

\* no id given: the listing of the account's playlists, then the prompt
\* for a number, and the range check on the answer
SelectPlaylist ==
  \E ok \in BOOLEAN :
    /\ op = "delete"
    /\ pc = "playlists"
    /\ LET playlists == get_playlists(account, ok)
           listed == Event("playlists", None, Len(playlists.list), ok)
       IN
       IF NoPlaylists(playlists)
       THEN /\ log' = Append(log, listed)
            /\ pc' = "done"
            /\ UNCHANGED playlist_id
       ELSE \E idx \in 0..(Len(playlists.list) + 1) :
              IF ~ValidSelection(idx, playlists)
              THEN /\ log' = log \o <<listed, Event("select", None, idx, FALSE)>>
                   /\ pc' = "done"
                   /\ UNCHANGED playlist_id
              ELSE /\ log' = log \o <<listed, Event("select", playlists.list[idx],
                                                   idx, TRUE)>>
                   /\ playlist_id' = playlists.list[idx]
                   /\ pc' = AfterResolved(force)
    /\ UNCHANGED <<engine, ret, op, force, token_file, account>>

\* an id given: the summary lookup says whether it names a playlist
DeleteInfoLookup ==
  \E outcome \in InfoOutcomes(account, playlist_id) :
    /\ op = "delete"
    /\ pc = "delete_info"
    /\ log' = Append(log, Event("info", outcome, 0, outcome = "found"))
    /\ pc' = IF get_playlist_info(outcome) = None THEN "done"
             ELSE AfterResolved(force)
    /\ UNCHANGED <<engine, ret, op, force, playlist_id, token_file, account>>

\* click.confirm: the user answers yes or no
ConfirmDelete ==
  \E yes \in BOOLEAN :
    /\ op = "delete"
    /\ pc = "confirm"
    /\ log' = Append(log, Event("confirm", None, 0, yes))
    /\ pc' = IF yes THEN "delete" ELSE "done"
    /\ UNCHANGED <<engine, ret, op, force, playlist_id, token_file, account>>

\* delete_playlist: playlists().delete(id=playlist_id), which the remote
\* carries out or refuses with HttpError
DeletePlaylist ==
  \E ok \in BOOLEAN :
    /\ op = "delete"
    /\ pc = "delete"
    /\ log' = Append(log, Event("deleteCollection", playlist_id, 0, ok))
    /\ account' = IF ok THEN SelectSeq(account, LAMBDA p : p # playlist_id)
                  ELSE account
    /\ pc' = "done"
    /\ UNCHANGED <<engine, ret, op, force, playlist_id, token_file>>

DeleteInit ==
  /\ CommandsAtRest
  /\ op = "none"
  /\ pc = "idle"
  /\ NoHelperCall
  /\ force = FALSE
  /\ playlist_id = None
  /\ token_file = NoTokenFile
  /\ account \in Accounts

DeleteNext ==
  \/ DeletePlaylistCmd
  \/ SelectPlaylist
  \/ DeleteInfoLookup
  \/ ConfirmDelete
  \/ DeletePlaylist
  \/ Exit

DeleteSpec == DeleteInit /\ [][DeleteNext]_vars

(***************************************************************************)
(* The commands that authenticate, over the token files there can be       *)
(***************************************************************************)
AuthInit ==
  /\ CommandsAtRest
  /\ op = "none"
  /\ pc = "idle"
  /\ NoHelperCall
  /\ force = FALSE
  /\ playlist_id = None
  /\ token_file \in TokenFiles
  /\ account \in Accounts

AuthNext ==
  \/ AuthenticateYoutube
  \/ TokenExpires
  \/ Logout
  \/ DeleteNext

AuthSpec == AuthInit /\ [][AuthNext]_vars

(***************************************************************************)
(* The replay on its own: add_videos_to_playlist_sequential applied to the *)
(* ids of a list, the empty one included, on an existing playlist          *)
(***************************************************************************)
ReplayInit ==
  /\ remote = <<<<>>>>
  /\ cache = [k \in CacheKinds |-> NoEntry]
  /\ dest = [exists |-> TRUE, items |-> <<>>]
  /\ op = "replay"
  /\ pc = "idle"
  /\ use_cache = FALSE
  /\ show_progress \in BOOLEAN
  /\ sort_by = None
  /\ reverse = FALSE
  /\ videos = <<>>
  /\ next_page_token = NoToken
  /\ new_videos = <<>>
  /\ sorted_videos \in SortInputs
  /\ new_playlist_id = NewId
  /\ i = 0
  /\ successful_count = 0
  /\ failed_count = 0
  /\ ret = Pending
  /\ fetched = Pending
  /\ log = <<>>
  /\ pages = <<>>
  /\ cache0 = cache
  /\ NoHelperCall
  /\ NoCliCall

\* the call: return 0, 0 for no ids, or zero the counters and enter the loop
AddVideosToPlaylistSequential ==
  /\ op = "replay"
  /\ pc = "idle"
  /\ i' = 0
  /\ successful_count' = 0
  /\ failed_count' = 0
  /\ IF VideoIds(sorted_videos) = <<>>
     THEN /\ pc' = "done"
          /\ ret' = RetCounts
     ELSE /\ pc' = "insert"
          /\ UNCHANGED ret
  /\ UNCHANGED <<helper, remote, cache, dest, args, videos, next_page_token,
                 new_videos, sorted_videos, new_playlist_id, fetched, log, pages>>

ReplayNext ==
  \/ AddVideosToPlaylistSequential
  \/ InsertOk
  \/ InsertFails

ReplaySpec == ReplayInit /\ [][ReplayNext]_vars

(***************************************************************************)
(* The sort on its own and the commands together: the sort applied to the  *)
(* lists of SortInputs, and to what the fetch of a rebuild returns         *)
(***************************************************************************)
\* the sequences over S of length n at most, repetitions included
RECURSIVE SeqsWithRepeats(_, _)
SeqsWithRepeats(S, n) ==
  IF n = 0 THEN {<<>>}
  ELSE {<<>>} \cup UNION {{<<x>> \o t : t \in SeqsWithRepeats(S, n - 1)} : x \in S}

\* the lists of SortInputs and those that hold a record more than once
RepeatInputs == SeqsWithRepeats(SortItems, MaxSortLen)

SortRebuildInit == Init \/ SortInitOn(RepeatInputs)

SortRebuildNext == Next \/ SortVideos

SortRebuildSpec == SortRebuildInit /\ [][SortRebuildNext]_vars

(***************************************************************************)
(* Properties                                                              *)
(***************************************************************************)
\* the events of one type, in the order they were issued
EventsOf(type) == SelectSeq(log, LAMBDA e : e.type = type)
Issued(type) == \E k \in 1..Len(log) : log[k].type = type
Inserts == EventsOf("insertItem")
InsertFailed == \E k \in 1..Len(log) : log[k].type = "insertItem" /\ ~log[k].ok

\* the cache kind of the running command's fetch
Kind == FetchKind(op, sort_by)
Fetching == op \in {"plain", "enriched", "rebuild"}

\* C1: fail-fast replay.  The insert calls are issued for the ids of the
\* list in order, one call per index; when the call of 0-based index k is
\* the first to fail it is the last call issued (k+1 calls in all, no retry,
\* nothing after it) and the replay has returned with the counts (k, 1).
C1_FailFastReplay ==
  /\ Len(Inserts) <= Len(VideoIds(sorted_videos))
  /\ \A j \in 1..Len(Inserts) :
       /\ Inserts[j].arg = VideoIds(sorted_videos)[j]
       /\ ~Inserts[j].ok =>
            /\ j = Len(Inserts)
            /\ \A h \in 1..(j - 1) : Inserts[h].ok
            /\ pc = "done"
            /\ successful_count = j - 1
            /\ failed_count = 1

\* a replay of three ids whose second insert failed: the third was not tried
C1_Witness ==
  /\ op = "rebuild" /\ pc = "done"
  /\ Len(VideoIds(sorted_videos)) = 3
  /\ Len(Inserts) = 2
  /\ ~Inserts[2].ok
  /\ successful_count = 1 /\ failed_count = 1

\* C2: create_sorted_playlist returns the destination id only when no insert
\* failed, and then every item of the sorted list was inserted; once an
\* insert has failed it returns None although the destination exists.
C2_IdOnlyWhenAllInserted ==
  /\ ret.status = "id" =>
       /\ op = "rebuild" /\ pc = "done"
       /\ ret.id = NewId
       /\ failed_count = 0
       /\ ~InsertFailed
       /\ sorted_videos # <<>>
       /\ successful_count = Len(sorted_videos)
       /\ dest.exists
       /\ dest.items = VideoIds(sorted_videos)
  /\ (op = "rebuild" /\ pc = "done" /\ InsertFailed) =>
       /\ ret = RetNone
       /\ dest.exists

\* a rebuild that returned the id after inserting three items
C2_Witness ==
  /\ ret.status = "id"
  /\ Len(sorted_videos) = 3
  /\ Len(Inserts) = 3

\* the rebuild's fetch left no item: it failed, the list is empty, or (plain
\* path) every item lacks its video id and is skipped
ZeroItems ==
  \/ fetched.status = "None"
  \/ /\ fetched.status = "list"
     /\ IF sort_by = "duration" THEN fetched.list = <<>>
        ELSE \A k \in 1..Len(fetched.list) : ~HasVideoId(fetched.list[k].id)

\* C3: a rebuild whose source fetch yields zero items returns None and
\* issues no create request and no insert request; no destination exists.
C3_EmptySourceNoCreate ==
  (op = "rebuild" /\ ZeroItems) =>
    /\ pc = "done"
    /\ ret = RetNone
    /\ ~Issued("createCollection")
    /\ ~Issued("insertItem")
    /\ ~dest.exists

\* a rebuild whose fetch returned a non-empty list of which every item was
\* skipped
C3_Witness ==
  /\ op = "rebuild" /\ pc = "done"
  /\ fetched.status = "list"
  /\ fetched.list # <<>>
  /\ ZeroItems

\* C4: the i-th insert call carries the video id of the i-th item of the
\* sorted list and the position i (dense, zero-based), whatever position the
\* item had in the source.
C4_DensePositions ==
  /\ Len(Inserts) <= Len(sorted_videos)
  /\ \A j \in 1..Len(Inserts) :
       /\ Inserts[j].arg = sorted_videos[j].video_id
       /\ Inserts[j].n = j - 1

\* three inserts, one of them of an item whose source position differs from
\* the position sent
C4_Witness ==
  /\ Len(Inserts) = 3
  /\ \E j \in 1..3 : Inserts[j].n # sorted_videos[j].position

\* C5: no rollback.  After a failed insert the rebuild has issued no delete
\* request, and the destination exists and holds exactly the inserted
\* prefix of the sorted list.
C5_NoRollback ==
  (op = "rebuild" /\ InsertFailed) =>
    /\ ~Issued("deleteCollection")
    /\ dest.exists
    /\ dest.items = SubSeq(VideoIds(sorted_videos), 1, successful_count)

\* the third insert failed after two were made
C5_Witness ==
  /\ op = "rebuild" /\ pc = "done"
  /\ InsertFailed
  /\ successful_count = 2
  /\ Len(dest.items) = 2

\* C6: when the summary lookup finds no entry or fails, the rebuild returns
\* None having issued that one request only: no listing, create or insert
\* request, no cache read or write; the cache store is untouched.
C6_SourceNotFound ==
  (op = "rebuild" /\ log # <<>> /\ log[1].type = "info" /\ ~log[1].ok) =>
    /\ pc = "done"
    /\ ret = RetNone
    /\ Len(log) = 1
    /\ fetched = Pending
    /\ cache = cache0

\* the lookup found no entry while caching was enabled and an entry was
\* cached for the source
C6_Witness ==
  /\ op = "rebuild" /\ pc = "done"
  /\ log = <<Event("info", "missing", 0, FALSE)>>
  /\ use_cache
  /\ cache[Kind].present

CreateRequestFailed ==
  \E k \in 1..Len(log) : log[k].type = "createCollection" /\ ~log[k].ok

\* C7: when the create request fails the rebuild returns None, no
\* destination exists and no insert request is issued.
C7_CreateFailure ==
  CreateRequestFailed =>
    /\ pc = "done"
    /\ ret = RetNone
    /\ ~dest.exists
    /\ ~Issued("insertItem")

\* the create request failed for a sorted list of three items
C7_Witness ==
  /\ op = "rebuild" /\ pc = "done"
  /\ CreateRequestFailed
  /\ Len(sorted_videos) = 3

\* the listing fields of a fetched item
ListingFields(v) == [id |-> v.id, position |-> v.position]

\* the fetch did not return a cache entry
Uncached == ~(use_cache /\ cache0[Kind].present)

\* C8: a successful uncached fetch, plain or enriched, returns the items of
\* the pages it received, concatenated in the order the pages came: none
\* dropped, duplicated or reordered.
C8_PaginationOrder ==
  (Fetching /\ fetched.status = "list" /\ Uncached) =>
    /\ Len(fetched.list) = Len(Flatten(pages))
    /\ \A k \in 1..Len(fetched.list) :
         ListingFields(fetched.list[k]) = Flatten(pages)[k]

\* an enriched fetch that received a page of two items and a page of one
C8_Witness ==
  /\ op = "enriched" /\ pc = "done"
  /\ fetched.status = "list"
  /\ Uncached
  /\ Len(pages) = 2
  /\ Len(pages[1]) = 2
  /\ Len(pages[2]) = 1

\* the running command has called its fetch
FetchCalled ==
  \/ op \in {"plain", "enriched"}
  \/ op = "rebuild" /\ \E k \in 1..Len(log) : log[k].type = "info" /\ log[k].ok

\* C9: when caching is enabled and the store holds an entry for the fetch's
\* kind, the fetch returns that entry, issues no remote request (no listing
\* page, no item-count lookup, no duration lookup) and leaves the cache
\* store as it was.
C9_CacheHitShortCircuit ==
  (Fetching /\ FetchCalled /\ use_cache /\ cache0[Kind].present) =>
    /\ fetched = RetList(cache0[Kind].data)
    /\ op # "rebuild" => (pc = "done" /\ ret = fetched)
    /\ \A k \in 1..Len(log) :
         log[k].type \notin {"count", "listItems", "durations", "cache_put"}
    /\ pages = <<>>
    /\ cache = cache0

\* an enriched fetch with progress display answered from the cache
C9_Witness ==
  /\ op = "enriched" /\ pc = "done"
  /\ use_cache /\ show_progress
  /\ cache0["videos_durations"].present
  /\ ret.status = "list"

\* C10: when a listing request fails, on the first page or a later one, the
\* fetch returns None (the items of earlier pages are not returned), that
\* request is the last the fetch issues, and the cache store is as it was
\* before the fetch.
C10_AllOrNothingFetch ==
  \A k \in 1..Len(log) :
    (log[k].type = "listItems" /\ ~log[k].ok) =>
      /\ fetched = RetNone
      /\ pc = "done"
      /\ ret = RetNone
      /\ k = Len(log)
      /\ cache = cache0

\* a plain fetch with caching enabled whose second listing request failed
\* after a first page with items
C10_Witness ==
  /\ op = "plain" /\ pc = "done"
  /\ use_cache
  /\ Len(pages) = 1
  /\ pages[1] # <<>>
  /\ log[Len(log)] = Event("listItems", None, 2, FALSE)

PlainShape(v) == DOMAIN v = {"id", "position"}
EnrichedShape(v) == DOMAIN v = {"id", "position", "video_id", "duration"}
ShapeOf(kind, list) ==
  \A k \in 1..Len(list) :
    IF kind = "videos" THEN PlainShape(list[k]) ELSE EnrichedShape(list[k])

\* the whole listing of the remote source, page after page
FullListing ==
  Flatten([p \in 1..Len(remote) |-> ListItems(remote, IF p = 1 THEN NoToken ELSE p)])

\* C12: the two cache kinds are distinct namespaces.  Every entry of a kind
\* holds the source's listing in the record shape of that kind's fetch, a
\* fetch only returns records of its own shape (from the store or not), and
\* no record of the enriched kind is a placeholder with duration "0:00"
\* (no video of the catalog has a zero duration).
C12_DistinctNamespaces ==
  /\ \A k \in CacheKinds :
       cache[k].present =>
         /\ ShapeOf(k, cache[k].data)
         /\ [j \in 1..Len(cache[k].data) |-> ListingFields(cache[k].data[j])] = FullListing
  /\ (Fetching /\ fetched.status = "list") => ShapeOf(Kind, fetched.list)
  /\ \A j \in 1..Len(cache["videos_durations"].data) :
       cache["videos_durations"].data[j].duration # ZeroDuration

\* both kinds hold an entry and a rebuild by title, which builds placeholder
\* records, was answered from the plain one
C12_Witness ==
  /\ op = "rebuild" /\ sort_by = "title"
  /\ use_cache
  /\ cache0["videos"].present /\ cache0["videos_durations"].present
  /\ fetched.status = "list"
  /\ videos # <<>>
  /\ \A k \in 1..Len(videos) : videos[k].duration = ZeroDuration

DurationRequestFailed ==
  \E k \in 1..Len(log) : log[k].type = "durations" /\ ~log[k].ok

\* C13: a failed duration request is terminal for the enriched fetch: once
\* the fetch is over it has returned None and the cache store is as it was
\* before the fetch.
C13_DurationFailureTerminal ==
  (Fetching /\ DurationRequestFailed /\ fetched # Pending) =>
    /\ fetched = RetNone
    /\ cache = cache0

\* the duration field the enriched fetch gives an item: the converted
\* duration of its video, or "Unknown"
EnrichedDuration(v) ==
  \/ v.duration = Unknown
  \/ VideoKnown(v.video_id) /\ v.duration = parse_duration(RawDurationOf(v.video_id))

\* C14: a rebuild sorting by duration gets its items through the enriched
\* fetch only: it reads and writes no entry of the plain cache kind, an
\* uncached fetch that returns items has issued a duration lookup, and every
\* item it holds, gets from the fetch and hands to the sort is an enriched
\* record whose duration is non-empty (a converted duration or "Unknown").
C14_DurationPathEnriched ==
  (op = "rebuild" /\ sort_by = "duration") =>
    /\ \A k \in 1..Len(log) :
         log[k].type \in {"cache_get", "cache_put"} => log[k].arg = "videos_durations"
    /\ cache["videos"] = cache0["videos"]
    /\ (fetched.status = "list" /\ Uncached /\ fetched.list # <<>>) => Issued("durations")
    /\ fetched.status = "list" =>
         /\ videos = fetched.list
         /\ sorted_videos = sort_videos_by_criteria(videos, sort_by, reverse)
    /\ \A k \in 1..Len(videos) :
         /\ EnrichedShape(videos[k])
         /\ videos[k].duration # <<>>
         /\ EnrichedDuration(videos[k])

\* a rebuild by duration past its uncached fetch, holding three items of
\* which one has a converted duration and one is "Unknown"
C14_Witness ==
  /\ op = "rebuild" /\ sort_by = "duration"
  /\ Uncached
  /\ fetched.status = "list"
  /\ Len(sorted_videos) = 3
  /\ \E k \in 1..3 : videos[k].duration = Unknown
  /\ \E k \in 1..3 : videos[k].duration = <<"0", ":", "4", "5">>

\* C15: a pacing delay is taken only after a successful insert that another
\* insert follows: every delay comes right after a successful insert, and
\* the next insert is issued after it or is still to come; none follows the
\* failed insert that stops the replay.
C15_PacingDelay ==
  \A k \in 1..Len(log) :
    log[k].type = "sleep" =>
      /\ k > 1
      /\ log[k - 1].type = "insertItem"
      /\ log[k - 1].ok
      /\ IF k < Len(log) THEN log[k + 1].type = "insertItem" ELSE pc = "insert"

\* the sort has been applied to a list
Sorted == op = "sort" /\ pc = "done"

\* where the record x stands in the list s (the records of a list differ)
IndexIn(s, x) == CHOOSE k \in 1..Len(s) : s[k] = x

SameKey(x, y) == ~KeyLess(sort_by, x, y) /\ ~KeyLess(sort_by, y, x)

\* the list is in non-decreasing key order
InKeyOrder(s) == \A k \in 1..(Len(s) - 1) : ~KeyLess(sort_by, s[k + 1], s[k])

\* C16: the sort is stable.  For each of the five criteria the output holds
\* the records of the input, and two records with equal keys stand in the
\* output in their input order, with reverse false and with reverse true;
\* with reverse false a list already in non-decreasing key order comes back
\* unchanged.
C16_SortStability ==
  (Sorted /\ sort_by \in Criteria) =>
    /\ Len(sorted_videos) = Len(videos)
    /\ \A k \in 1..Len(videos) : \E j \in 1..Len(sorted_videos) : sorted_videos[j] = videos[k]
    /\ \A p, q \in 1..Len(sorted_videos) :
         (p < q /\ SameKey(sorted_videos[p], sorted_videos[q])) =>
           IndexIn(videos, sorted_videos[p]) < IndexIn(videos, sorted_videos[q])
    /\ (~reverse /\ InKeyOrder(videos)) => sorted_videos = videos

\* a reversed sort by title of three records, two of them with equal keys,
\* that moved a record
C16_Witness ==
  /\ Sorted /\ sort_by = "title" /\ reverse
  /\ Len(videos) = 3
  /\ sorted_videos # videos
  /\ \E p, q \in 1..3 : p < q /\ SameKey(videos[p], videos[q])
  /\ \E p, q \in 1..3 : KeyLess(sort_by, videos[p], videos[q])

\* the total seconds of the durations of the records of SortItems, worked
\* out by hand: 1:02:03 is 3600 + 120 + 3, 1:15 is 60 + 15, 0:45 is 45; a
\* missing field, "Unknown", "0:00", "45" (one part) and "1:b" (not a
\* number) give 0
ExpectedSeconds(v) ==
  IF "duration" \notin DOMAIN v THEN 0
  ELSE CASE v.duration = <<"1", ":", "0", "2", ":", "0", "3">> -> 3723
         [] v.duration = <<"1", ":", "1", "5">> -> 75
         [] v.duration = <<"0", ":", "4", "5">> -> 45
         [] OTHER -> 0

\* C17: sorting by duration orders the records by the total seconds of
\* their compact duration (M:SS is 60*M+SS, H:MM:SS is 3600*H+60*MM+SS;
\* "Unknown", a missing field and a string of neither form count 0):
\* non-decreasing along the output with reverse false, non-increasing with
\* reverse true.
C17_DurationOrder ==
  (Sorted /\ sort_by = "duration") =>
    /\ \A k \in 1..Len(videos) : get_duration_seconds(videos[k]) = ExpectedSeconds(videos[k])
    /\ \A k \in 1..(Len(sorted_videos) - 1) :
         IF reverse
         THEN ExpectedSeconds(sorted_videos[k]) >= ExpectedSeconds(sorted_videos[k + 1])
         ELSE ExpectedSeconds(sorted_videos[k]) <= ExpectedSeconds(sorted_videos[k + 1])

\* a forward sort by duration that moved 1:02:03 behind 1:15 and a record
\* of key 0
C17_Witness ==
  /\ Sorted /\ sort_by = "duration" /\ ~reverse
  /\ Len(videos) = 3
  /\ ExpectedSeconds(videos[1]) = 3723
  /\ ExpectedSeconds(sorted_videos[1]) = 0
  /\ ExpectedSeconds(sorted_videos[2]) = 75
  /\ ExpectedSeconds(sorted_videos[3]) = 3723

\* C18: with a criterion that is none of the five the sort returns its
\* input as it is, same records in the same order, whatever reverse is.
C18_UnknownCriterion ==
  (Sorted /\ sort_by \notin Criteria) => sorted_videos = videos

\* the criterion "views" with reverse set, on three records that are neither
\* in position order nor in reversed position order
C18_Witness ==
  /\ Sorted /\ sort_by = "views" /\ reverse
  /\ Len(videos) = 3
  /\ videos[1].position > videos[2].position
  /\ videos[2].position < videos[3].position
  /\ sorted_videos = videos

\* one optional part of a duration: nothing, or a decimal number and its unit
DurationPart(s, unit) ==
  s = <<>> \/ (Len(s) >= 2 /\ s[Len(s)] = unit /\ AllDigits(SubSeq(s, 1, Len(s) - 1)))

\* the ways to cut what follows "PT" into an hours, a minutes and a seconds part
DurationCuts(token) ==
  {ab \in (2..Len(token)) \X (2..Len(token)) :
     /\ ab[1] <= ab[2]
     /\ DurationPart(SubSeq(token, 3, ab[1]), "H")
     /\ DurationPart(SubSeq(token, ab[1] + 1, ab[2]), "M")
     /\ DurationPart(SubSeq(token, ab[2] + 1, Len(token)), "S")}

\* the whole token has the shape PT[nH][nM][nS]
WellFormed(token) ==
  /\ Len(token) >= 2
  /\ token[1] = "P" /\ token[2] = "T"
  /\ DurationCuts(token) # {}

PartNumber(s) == IF s = <<>> THEN 0 ELSE DigitsToInt(SubSeq(s, 1, Len(s) - 1))

\* H:MM:SS when the hours are positive, M:SS otherwise
CompactOf(token) ==
  LET ab == CHOOSE x \in DurationCuts(token) : TRUE
      h == PartNumber(SubSeq(token, 3, ab[1]))
      m == PartNumber(SubSeq(token, ab[1] + 1, ab[2]))
      sec == PartNumber(SubSeq(token, ab[2] + 1, Len(token)))
  IN  IF h > 0 THEN IntToStr(h) \o <<":">> \o Pad2(m) \o <<":">> \o Pad2(sec)
      ELSE IntToStr(m) \o <<":">> \o Pad2(sec)

\* C19: parse_duration turns a token of the shape PT[nH][nM][nS] into
\* H:MM:SS when the hours are positive and M:SS otherwise (PT1H2M3S gives
\* 1:02:03, PT45S gives 0:45), and returns every other token unchanged.
C19_DurationConversion ==
  (op = "parse" /\ pc = "done") =>
    /\ IF WellFormed(duration_iso)
       THEN duration_str = CompactOf(duration_iso)
       ELSE duration_str = duration_iso
    /\ duration_iso = <<"P", "T", "1", "H", "2", "M", "3", "S">>
         => duration_str = <<"1", ":", "0", "2", ":", "0", "3">>
    /\ duration_iso = <<"P", "T", "4", "5", "S">> => duration_str = <<"0", ":", "4", "5">>

\* C20: get_video_durations handed more ids than one request takes returns
\* the empty mapping without sending the batch to the remote.
C20_BatchLimit ==
  (op = "durations" /\ pc = "done" /\ Len(asked_ids) > BatchLimit) =>
    /\ ~Issued("durations")
    /\ DOMAIN got_durations = {}

\* the pages with items, in the order they came: each had one duration lookup
NonEmptyPages == SelectSeq(pages, LAMBDA p : p # <<>>)

\* the record the enriched fetch owes for an item of a page whose lookup
\* was answered (ok) or not: the converted duration of the item's own video
\* when the response holds it, "Unknown" otherwise
OwedRecord(item, ok) ==
  [id |-> item.id, position |-> item.position, video_id |-> VideoIdOf(item.id),
   duration |-> IF ok /\ VideoKnown(VideoIdOf(item.id))
                THEN parse_duration(RawDurationOf(VideoIdOf(item.id)))
                ELSE Unknown]

\* C21: the result of an uncached enriched fetch holds one record per
\* listed item, in listing order; an item whose video is in its page's
\* duration response carries the converted duration of that video, and an
\* item whose video is absent from it carries "Unknown": no item is dropped
\* and no duration moves to another item.
C21_MissingDurations ==
  (Fetching /\ Enriched(op, sort_by) /\ fetched.status = "list" /\ Uncached) =>
    /\ Len(EventsOf("durations")) = Len(NonEmptyPages)
    /\ fetched.list =
         Flatten([j \in 1..Len(NonEmptyPages) |->
                    [k \in 1..Len(NonEmptyPages[j]) |->
                       OwedRecord(NonEmptyPages[j][k], EventsOf("durations")[j].ok)]])

\* an enriched fetch of one page in the order i1, i2, i3, its lookup
\* answered: vb is absent from the response and stands between two videos
\* that are in it
C21_Witness ==
  /\ op = "enriched" /\ pc = "done"
  /\ Uncached
  /\ fetched.status = "list"
  /\ Len(fetched.list) = 3
  /\ EventsOf("durations") = <<Event("durations", None, 3, TRUE)>>
  /\ fetched.list[1].duration = <<"1", ":", "0", "2", ":", "0", "3">>
  /\ fetched.list[2].duration = Unknown
  /\ fetched.list[3].duration = <<"0", ":", "4", "5">>

\* C22: no unhandled crash.  Whatever the remote answers, a fetch and a
\* rebuild end by returning a value (the result or None), never by raising
\* an exception to the caller.
C22_NoUnhandledCrash ==
  /\ fetched.status # "raised"
  /\ ret.status # "raised"

\* the fetched items that have a video id, in fetched order
Kept == SelectSeq(fetched.list, LAMBDA v : HasVideoId(v.id))

\* C25: on a rebuild by a criterion other than duration, a fetched item
\* without a video id is skipped and the rebuild goes on: the items it
\* holds are the remaining ones in fetched order, each with duration "0:00";
\* they are sorted and a create request follows as long as one item
\* remains, and with none left the rebuild returns None.
C25_PlaceholderSynthesis ==
  (op = "rebuild" /\ sort_by # "duration" /\ fetched.status = "list") =>
    IF Kept = <<>>
    THEN pc = "done" /\ ret = RetNone /\ ~Issued("createCollection")
    ELSE /\ Len(videos) = Len(Kept)
         /\ \A k \in 1..Len(Kept) :
              /\ ListingFields(videos[k]) = Kept[k]
              /\ videos[k].video_id = VideoIdOf(Kept[k].id)
              /\ videos[k].duration = ZeroDuration
         /\ sorted_videos = sort_videos_by_criteria(videos, sort_by, reverse)
         /\ pc = "create" \/ Issued("createCollection")
         /\ ret.status = "id" => Len(Inserts) = Len(Kept)

\* a rebuild by title fetched i1, i4, i3, skipped i4 and inserted the two
\* others
C25_Witness ==
  /\ op = "rebuild" /\ sort_by = "title" /\ pc = "done"
  /\ Len(fetched.list) = 3
  /\ fetched.list[2].id = "i4"
  /\ Len(videos) = 2
  /\ ret.status = "id"

\* the listing requests of the running fetch, in the order they were issued
Listings == EventsOf("listItems")

\* the first request carries no cursor, each later one the cursor that the
\* page before it returned, and that page was received and carried one; a
\* fetch that returns its list has asked for every page once, the last of
\* which carries no cursor
CursorProtocol ==
  /\ Len(Listings) <= Len(remote)
  /\ \A j \in 1..Len(Listings) :
       IF j = 1 THEN Listings[j].n = NoToken
       ELSE /\ Listings[j - 1].ok
            /\ NextPageToken(remote, Listings[j - 1].n) # NoToken
            /\ Listings[j].n = NextPageToken(remote, Listings[j - 1].n)
  /\ (Fetching /\ fetched.status = "list" /\ Uncached) =>
       /\ Len(Listings) = Len(remote)
       /\ Len(pages) = Len(remote)
       /\ \A j \in 1..Len(Listings) : Listings[j].ok
       /\ NextPageToken(remote, Listings[Len(Listings)].n) = NoToken

InFetchLoop == pc \in {"count", "page", "durations"}

\* C24: the fetch follows the cursor protocol, one listing request per page
\* and none after the page without a next cursor, and a fetch that has
\* entered its loop leaves it.
C24_FetchTermination == []CursorProtocol /\ (InFetchLoop ~> ~InFetchLoop)

\* a plain fetch of a source of two pages has returned after two requests
C24_Witness ==
  /\ op = "plain" /\ pc = "done"
  /\ Len(remote) = 2
  /\ fetched.status = "list"
  /\ Listings = <<Event("listItems", None, NoToken, TRUE), Event("listItems", None, 2, TRUE)>>

FetchCommand == op \in {"plain", "enriched"}

\* a fetch with caching enabled that returned a non-empty list leaves that
\* list in the store under its kind
StoreHoldsReturned ==
  (FetchCommand /\ use_cache /\ fetched.status = "list" /\ fetched.list # <<>>) =>
    cache[Kind] = Entry(fetched.list)

\* a fetch with caching enabled that found an entry returns the stored list
\* and asks the remote for no page
HitReturnsStored ==
  (FetchCommand /\ use_cache /\ cache0[Kind].present) =>
    /\ fetched = RetList(cache0[Kind].data)
    /\ ~Issued("listItems")

\* a fetch with caching enabled for a key that holds nothing finds the
\* cache absent and takes its result from the remote's pages
MissGoesRemote ==
  (FetchCommand /\ use_cache /\ ~cache0[Kind].present) =>
    /\ log[1] = Event("cache_get", Kind, 0, FALSE)
    /\ fetched.status = "list" =>
         /\ Issued("listItems")
         /\ [k \in 1..Len(fetched.list) |-> ListingFields(fetched.list[k])] = Flatten(pages)

\* an entry of the store stays as it is until a clear command runs
EntriesLive ==
  \A k \in CacheKinds :
    (cache[k].present /\ ~(pc = "idle" /\ op' = "clear")) => cache'[k] = cache[k]

C29_CacheOptIn ==
  (FetchCommand /\ ~use_cache) =>
    /\ cache = cache0
    /\ \A k \in 1..Len(log) : log[k].type \notin {"cache_get", "cache_put"}
    /\ fetched.status = "list" =>
         /\ Issued("listItems")
         /\ [k \in 1..Len(fetched.list) |-> ListingFields(fetched.list[k])] = Flatten(pages)
         /\ Flatten(pages) = FullListing

\* a plain fetch without caching returned the source's listing while the
\* store held another list for it
C29_Witness ==
  /\ op = "plain" /\ pc = "done"
  /\ ~use_cache
  /\ cache["videos"].present
  /\ fetched.status = "list"
  /\ fetched.list # cache["videos"].data

\* the delete command has resolved its target before step k: the
\* selection was within range and chose it, or the info lookup found it
ResolvedBefore(k) ==
  \E j \in 1..(k - 1) :
    \/ /\ log[j].type = "select"
       /\ log[j].ok
       /\ log[j].arg = playlist_id
       /\ log[j - 1].type = "playlists"
       /\ 1 <= log[j].n /\ log[j].n <= log[j - 1].n
    \/ log[j].type = "info" /\ log[j].ok

\* the user has answered yes to the confirmation prompt before step k
ConfirmedBefore(k) ==
  \E j \in 1..(k - 1) : log[j].type = "confirm" /\ log[j].ok

\* C26: the delete command issues a deleteCollection request only for a
\* target it has resolved (a selection within range, or an id the info
\* lookup found) and only if --force was given or the user answered yes
\* to the prompt; an out-of-range selection, an id that is not found and
\* a declined confirmation each end the command with no delete request
C26_DeleteGuarded ==
  op = "delete" =>
    /\ \A k \in 1..Len(log) :
         log[k].type = "deleteCollection" =>
           /\ log[k].arg = playlist_id
           /\ playlist_id # None
           /\ ResolvedBefore(k)
           /\ force \/ ConfirmedBefore(k)
    /\ \A k \in 1..Len(log) :
         (log[k].type \in {"select", "info", "confirm"} /\ ~log[k].ok) =>
           /\ k = Len(log)
           /\ pc = "done"
           /\ ~Issued("deleteCollection")
    /\ Len(EventsOf("deleteCollection")) <= 1

\* a playlist chosen from the listing and deleted after a yes
C26_Witness ==
  /\ op = "delete"
  /\ pc = "done"
  /\ ~force
  /\ Issued("select")
  /\ Issued("confirm")
  /\ Issued("deleteCollection")
  /\ log[Len(log)].ok
  /\ ~Has(account, playlist_id)

\* a command calls authenticate_youtube in this step
AuthCall == pc = "idle" /\ op' \in {"auth", "delete"}

\* the call is authenticate_youtube(force=True)
AuthForced == op = "auth" /\ force

\* the refresh of the stored credentials was tried and failed
RefreshFailed ==
  \E k \in 1..Len(log) : log[k].type = "refresh" /\ ~log[k].ok

\* C27: when the token file holds valid credentials and force is false,
\* authenticate_youtube returns a service built from them, runs no
\* authorization flow and does not rewrite the token file; the flow runs
\* only when force is true, no token file exists, or the stored
\* credentials are invalid and cannot be refreshed
C27_CredentialReuse ==
  [][AuthCall =>
       /\ (token_file.exists /\ token_file.valid /\ ~AuthForced') =>
            /\ ret' = Service
            /\ ~Issued("auth_flow")'
            /\ ~Issued("save")'
            /\ token_file' = token_file
       /\ Issued("auth_flow")' =>
            \/ AuthForced'
            \/ ~token_file.exists
            \/ /\ ~token_file.valid
               /\ ~token_file.refreshable \/ RefreshFailed']_vars

\* the insert calls the replay has issued
InsertCalls == EventsOf("insertItem")

\* C28: throughout add_videos_to_playlist_sequential on n ids,
\* successful_count + failed_count is the number of insert calls issued
\* so far and at most n, and failed_count is 0 or 1; at return with n > 0,
\* successful_count = n exactly when failed_count = 0; with n = 0 the
\* result is (0, 0) and no insert call is issued
C28_ReplayCounters ==
  LET n == Len(VideoIds(sorted_videos)) IN
  op = "replay" =>
    /\ successful_count + failed_count = Len(InsertCalls)
    /\ successful_count + failed_count <= n
    /\ failed_count \in {0, 1}
    /\ successful_count = Len(SelectSeq(InsertCalls, LAMBDA e : e.ok))
    /\ (pc = "done" /\ n > 0) =>
         /\ ret = RetCounts
         /\ (successful_count = n) <=> (failed_count = 0)
    /\ (pc = "done" /\ n = 0) =>
         /\ ret = RetCounts
         /\ successful_count = 0
         /\ failed_count = 0
         /\ InsertCalls = <<>>

\* a replay that returned at its second insert, which failed
C28_Witness ==
  /\ op = "replay"
  /\ pc = "done"
  /\ Len(VideoIds(sorted_videos)) > 2
  /\ successful_count = 1
  /\ failed_count = 1
  /\ Len(InsertCalls) = 2

\* how many times x occurs in s
Occurrences(x, s) == Cardinality({k \in 1..Len(s) : s[k] = x})

\* t holds exactly the items of s, each as many times
IsPermutation(s, t) ==
  /\ Len(s) = Len(t)
  /\ \A k \in 1..Len(s) : Occurrences(s[k], t) = Occurrences(s[k], s)

\* the sort has its input: called on its own, or in a rebuild whose fetch
\* has returned a list
SortApplied == op = "sort" \/ (op = "rebuild" /\ fetched.status = "list")

\* the output of the sort is the input permuted, and the rebuild sends
\* the ids of the output in order, all of them when it returns the new id
SortOutputPermutes ==
  /\ (op = "sort" /\ pc = "done") => IsPermutation(videos, sorted_videos)
  /\ (op = "rebuild" /\ fetched.status = "list") =>
       /\ IsPermutation(videos, sorted_videos)
       /\ Len(InsertCalls) <= Len(videos)
       /\ \A k \in 1..Len(InsertCalls) :
            InsertCalls[k].arg = sorted_videos[k].video_id
       /\ (pc = "done" /\ ret.status = "id") => Len(InsertCalls) = Len(videos)

\* the list the sort was given stays as it was for the rest of the command
SortInputKept == (SortApplied /\ op' = op /\ pc' # "idle") => videos' = videos

\* C30: for every criterion and either direction the output of
\* sort_videos_by_criteria holds exactly the input items with the same
\* multiplicities, the input list keeps its order, and so the rebuild
\* attempts to insert exactly as many items as survived the fetch
C30_SortPermutes == []SortOutputPermutes /\ [][SortInputKept]_vars

\* a sort that moved an item of a list holding another item twice
C30_Witness ==
  /\ op = "sort" /\ pc = "done"
  /\ Len(videos) = 3
  /\ videos[1] = videos[3]
  /\ sorted_videos # videos
====
